---- MODULE Spec2Model ----
(***************************************************************************)
(* Model of mahi::fes::Stimulator (src/src/Mahi/Fes/Core/Stimulator.cpp).  *)
(*                                                                         *)
(* One action per public operation of the Stimulator; an action is the     *)
(* whole call, nested calls included.  The operations are written as       *)
(* operators from a state record S (the mutable members) and the outcomes  *)
(* of the serial exchanges of that call to the state record after the      *)
(* call, so that a handler that calls another handler (update -> disable,  *)
(* enable -> disable, add_events -> add_event) is the composition of the   *)
(* two operators.  Scheduler, Channel and ReadMessage are not part of the  *)
(* sources at hand; their operations are modelled from the specification   *)
(* and every result they report is an input of the call.                   *)
(***************************************************************************)
EXTENDS Integers, Sequences, FiniteSets, TLC

\* ------------------------------------------------------------------ bounds
MaxPorts == 2      \* m_com_ports / m_hComms / m_schedulers hold two entries
MaxFrames == 1     \* inbound frames drained from one port in one update() tick
MaxBatch == 3      \* length of a channel list given to add_events
MaxId == 1         \* first payload byte of a scheduler-setup acknowledgement
MaxAmp == 1        \* amplitude / pulse width values given to set_amp / write_pw
MaxEdits == 1      \* set_amp / write_pw / update_max_* calls in one run

Ports == 0 .. (MaxPorts - 1)

\* ---------------------------------------------------------------- channels
Chan(name, num, board) ==
    [name |-> name, channel_num |-> num, board_num |-> board,
     max_amplitude |-> 100, max_pulse_width |-> 250]

bicep == Chan("bicep", 0, 0)
tricep == Chan("tricep", 1, 1)
forearm == Chan("forearm", 2, 0)

\* The channels a caller hands to the operations.
ChannelPool == {bicep, tricep}

\* The constructor's arguments: the channel list, whether a second port is
\* named, is_virtual.  One board or two, a real and a virtual Stimulator, and
\* a list that names a channel of the second board while only one port is
\* configured.
Constructions ==
    {[channels |-> <<bicep>>, num_ports |-> 1, is_virtual |-> FALSE],
     [channels |-> <<bicep>>, num_ports |-> 1, is_virtual |-> TRUE],
     [channels |-> <<bicep, tricep, forearm>>, num_ports |-> 1, is_virtual |-> FALSE],
     [channels |-> <<bicep, tricep, forearm>>, num_ports |-> 2, is_virtual |-> FALSE]}

VARIABLES
    m_num_ports,      \* 1 or 2, fixed by the constructor
    m_is_virtual,     \* fixed by the constructor
    m_channels,       \* the Stimulator's Channel list
    m_enabled,
    m_hComms,         \* per port: "unset", "invalid", "open" or "closed"
    m_schedulers,     \* per port: [enabled, id, events]
    amplitudes, pulsewidths, max_amplitudes, max_pulsewidths,   \* the snapshot
    oob,              \* a snapshot write fell outside the arrays
    edits,            \* parameter and ceiling changes made so far
    op,               \* the operation that ran last
    ret,              \* what it returned: <<b>>, or <<>> for a void operation
    pre_enabled,      \* m_enabled when it was entered
    batch,            \* the channel list it was given (add_events), else <<>>
    args,             \* the sync byte and frequency it was given (create_scheduler)
    drained,          \* the inbound frames it drained (update), else <<>>
    handshook,        \* per port: a handshake went through since the last shutdown
    m_mtx,            \* who holds the snapshot mutex: "free", "update" or "reader"
    tick,             \* where update() is: "idle", "lock", "write", "unlock", "flush"
    refreshed,        \* the Events whose values this tick has written to the snapshot
    reading,          \* a reader thread is inside its critical section
    copy,             \* what the reader has copied so far, channel by channel
    published,        \* the snapshot as the last complete refresh left it
    log,              \* what it did, in order: <<what, port, flag, detail>>
    m_open,           \* VirtualStim: the window is open, poll() keeps running
    m_pause,          \* VirtualStim: the feed's Pause checkbox
    wire,             \* the bytes written to the VirtualStim's port and not yet read
    written,          \* the frames written to that port so far
    msg_header,       \* the four bytes of poll()'s msg_header array
    m_msg_count,
    m_recent_message, \* [message, msg_num]
    m_recent_messages,\* the ring buffer of recent messages
    m_recent_feed,    \* the copy of it the window shows
    monitors,         \* per-type monitor slot: [message, msg_num]
    polled            \* what the last pass of poll() read and did

vars == <<m_num_ports, m_is_virtual, m_channels, m_enabled, m_hComms, m_schedulers,
          amplitudes, pulsewidths, max_amplitudes, max_pulsewidths, oob,
          edits, op, ret, pre_enabled, batch, args, drained, handshook,
          m_mtx, tick, refreshed, reading, copy, published, log,
          m_open, m_pause, wire, written, msg_header, m_msg_count, m_recent_message,
          m_recent_messages, m_recent_feed, monitors, polled>>

\* The threads around the snapshot: the mutex, update()'s position, the reader.
threads == <<m_mtx, tick, refreshed, reading, copy, published>>

\* The VirtualStim (src/src/Mahi/Fes/Utility/VirtualStim.cpp) at the other
\* end of a virtual port.
receiver == <<m_open, m_pause, wire, written, msg_header, m_msg_count, m_recent_message,
              m_recent_messages, m_recent_feed, monitors, polled>>

\* The Stimulator and the threads around its snapshot.
stimulator == <<m_num_ports, m_is_virtual, m_channels, m_enabled, m_hComms, m_schedulers,
                amplitudes, pulsewidths, max_amplitudes, max_pulsewidths, oob,
                edits, op, ret, pre_enabled, batch, args, drained, handshook,
                m_mtx, tick, refreshed, reading, copy, published, log>>

\* The mutable members as one record, the argument of the operation operators.
\* halted is what the halt/delete frames of Scheduler::disable will report,
\* port by port, should the call come to them; nothing is returned to the
\* Stimulator, and a call other than disable() itself has them delivered.
State ==
    [enabled |-> m_enabled, hComms |-> m_hComms, schedulers |-> m_schedulers,
     channels |-> m_channels,
     amplitudes |-> amplitudes, pulsewidths |-> pulsewidths,
     max_amplitudes |-> max_amplitudes, max_pulsewidths |-> max_pulsewidths,
     oob |-> oob, halted |-> [i \in Ports |-> TRUE], log |-> <<>>]

Emit(S, what, port, flag, detail) ==
    [S EXCEPT !.log = Append(@, <<what, port, flag, detail>>)]

\* ------------------------------------------------- double-precision numbers
\* A natural number of any size is the sequence of its digits to the base
\* 2^15, lowest first, without a leading zero; zero is the empty sequence.
Base == 2 ^ 15

RECURSIVE Digits(_)
Digits(n) == IF n = 0 THEN <<>> ELSE <<n % Base>> \o Digits(n \div Base)

RECURSIVE Value(_)
Value(a) == IF a = <<>> THEN 0 ELSE a[1] + Base * Value(Tail(a))

RECURSIVE Trim(_)
Trim(a) ==
    IF a = <<>> \/ a[Len(a)] # 0 THEN a ELSE Trim(SubSeq(a, 1, Len(a) - 1))

Digit(a, i) == IF i <= Len(a) THEN a[i] ELSE 0

\* a >= b for two numbers of i digits, from the top digit down
RECURSIVE GeqFrom(_, _, _)
GeqFrom(a, b, i) ==
    i = 0 \/ (IF a[i] # b[i] THEN a[i] > b[i] ELSE GeqFrom(a, b, i - 1))

Geq(a, b) == IF Len(a) # Len(b) THEN Len(a) > Len(b) ELSE GeqFrom(a, b, Len(a))

RECURSIVE AddFrom(_, _, _, _)
AddFrom(a, b, i, carry) ==
    IF i > Len(a) /\ i > Len(b) THEN (IF carry > 0 THEN <<carry>> ELSE <<>>)
    ELSE LET s == Digit(a, i) + Digit(b, i) + carry
         IN  <<s % Base>> \o AddFrom(a, b, i + 1, s \div Base)

Add(a, b) == AddFrom(a, b, 1, 0)

RECURSIVE SubFrom(_, _, _, _)
SubFrom(a, b, i, borrow) ==
    IF i > Len(a) THEN <<>>
    ELSE LET d == Digit(a, i) - Digit(b, i) - borrow
         IN  <<(d + Base) % Base>> \o SubFrom(a, b, i + 1, IF d < 0 THEN 1 ELSE 0)

\* a - b for a >= b
Sub(a, b) == Trim(SubFrom(a, b, 1, 0))

\* a * k for a whole number 0 < k < 2^15
RECURSIVE TimesFrom(_, _, _, _)
TimesFrom(a, k, i, carry) ==
    IF i > Len(a) THEN (IF carry > 0 THEN <<carry>> ELSE <<>>)
    ELSE LET s == a[i] * k + carry
         IN  <<s % Base>> \o TimesFrom(a, k, i + 1, s \div Base)

Times(a, k) == TimesFrom(a, k, 1, 0)

\* The number of binary digits of a, and its binary digit i (the lowest is 1).
BitLen(a) ==
    IF a = <<>> THEN 0
    ELSE 15 * (Len(a) - 1)
         + (CHOOSE w \in 1 .. 15 : 2 ^ (w - 1) <= a[Len(a)] /\ a[Len(a)] < 2 ^ w)

BitAt(a, i) == (Digit(a, ((i - 1) \div 15) + 1) \div (2 ^ ((i - 1) % 15))) % 2

\* a without its s lowest binary digits
Shr(a, s) ==
    LET w == s \div 15
        r == s % 15
    IN  Trim([i \in 1 .. (Len(a) - w) |->
                 (a[i + w] \div (2 ^ r)) + (Digit(a, i + w + 1) % (2 ^ r)) * (2 ^ (15 - r))])

\* a * 2^s for a whole number 0 < k < 2^15
Shl(k, s) == [i \in 1 .. (s \div 15) |-> 0] \o Digits(k * 2 ^ (s % 15))

\* The largest digit q with d * q <= a, for a < d * 2^15, one binary digit
\* of q at a time from its top.
RECURSIVE QuotientDigit(_, _, _, _)
QuotientDigit(a, d, bit, q) ==
    IF bit < 0 THEN q
    ELSE LET more == q + 2 ^ bit
         IN  IF Geq(a, Trim(Times(d, more)))
             THEN QuotientDigit(a, d, bit - 1, more)
             ELSE QuotientDigit(a, d, bit - 1, q)

\* Quotient and remainder of a by d, one digit of a at a time from its top.
RECURSIVE DivFrom(_, _, _, _, _)
DivFrom(a, d, i, rem, q) ==
    IF i = 0 THEN [q |-> Trim(q), r |-> rem]
    ELSE LET r2 == Trim(<<a[i]>> \o rem)
             qd == QuotientDigit(r2, d, 14, 0)
             r3 == Sub(r2, Trim(Times(d, qd)))
         IN  DivFrom(a, d, i - 1, r3, <<qd>> \o q)

\* Quotient and remainder of k * 2^s by d
DivMod(k, s, d) ==
    LET a == Shl(k, s) IN DivFrom(a, d, Len(a), <<>>, <<>>)

\* A double is [neg, m, e] with value m * 2^e and m of 53 binary digits, or
\* m = <<>> for zero.  Round53 is the rounding of an exact result a * 2^e
\* of more than 53 binary digits (plus a remainder below one unit of a when
\* sticky) to the nearest double, ties to even.
Round53(neg, exact, e, sticky) ==
    LET a == exact
        s == BitLen(a) - 53
        kept == Shr(a, s)
        rest == sticky \/ \E i \in 1 .. (s - 1) : BitAt(a, i) = 1
        up == BitAt(a, s) = 1 /\ (rest \/ BitAt(kept, 1) = 1)
        m1 == IF up THEN Add(kept, <<1>>) ELSE kept
    IN  IF a = <<>> THEN [neg |-> neg, m |-> <<>>, e |-> 0]
        ELSE IF BitLen(m1) = 54 THEN [neg |-> neg, m |-> Shr(m1, 1), e |-> e + s + 1]
        ELSE [neg |-> neg, m |-> m1, e |-> e + s]

\* The double a caller gets from num / den (den > 0): exact for a whole
\* number, the nearest double otherwise.
Double(num, den) ==
    LET dm == DivMod(IF num < 0 THEN 0 - num ELSE num, 110, Digits(den))
    IN  Round53(num < 0, dm.q, -110, dm.r # <<>>)

\* 1.0 / x for x # 0
Reciprocal(x) ==
    LET v == x
        dm == DivMod(1, 107, v.m)
    IN  Round53(v.neg, dm.q, (-107) - v.e, dm.r # <<>>)

\* x * k for a whole number 0 < k < 2^15
Product(x, k) ==
    LET v == x IN Round53(v.neg, Times(v.m, k), v.e, FALSE)

\* (unsigned int) x for 0 <= x < 2^31: the digits before the point.
Truncated(x) ==
    LET v == x IN Value(Shr(v.m, 0 - v.e))

Positive(x) == ~x.neg /\ x.m # <<>>

\* -------------------------------------------------- Scheduler (one per port)
NewScheduler == [enabled |-> FALSE, id |-> 0, events |-> <<>>]

\* An Event as its create frame leaves it: the values the device holds
\* (sent_*) are the values it was created with.
NewEvent(channel) ==
    [channel |-> channel, amplitude |-> 0, pulse_width |-> 0,
     sent_amplitude |-> 0, sent_pulse_width |-> 0]

\* The parameters of an Event that differ from what was last sent.
EventDirty(e) ==
    (IF e.amplitude # e.sent_amplitude THEN {"edit_amp"} ELSE {})
    \cup (IF e.pulse_width # e.sent_pulse_width THEN {"edit_pw"} ELSE {})

\* Variant: an acknowledged edit leaves the parameter dirty.
EventUpdate_stays_dirty(e, acked) == e

\* Event::update: one edit frame per dirty parameter; an acknowledged edit
\* clears the dirtiness.
EventUpdate(e, acked) ==
    IF acked
    THEN [e EXCEPT !.sent_amplitude = e.amplitude, !.sent_pulse_width = e.pulse_width]
    ELSE e

HasEvent(sch, channel) ==
    \E k \in 1 .. Len(sch.events) : sch.events[k].channel.name = channel.name

\* Scheduler::create_scheduler: sends the scheduler-setup frame; the Scheduler
\* is Running once the frame went out.
SchedulerCreate(sch, sent) == [sch EXCEPT !.enabled = sent]

\* Scheduler::set_id
SchedulerSetId(sch, id) == [sch EXCEPT !.id = id]

\* Scheduler::disable: halt/delete best effort, inert whatever their outcome.
SchedulerDisable(sch) == [sch EXCEPT !.enabled = FALSE, !.events = <<>>]

\* Variant: an Event is accepted whether or not the Scheduler is Running.
SchedulerCanAdd_any_state(sch, channel, acked) ==
    ~HasEvent(sch, channel) /\ acked

\* Scheduler::add_event: only in Running, one Event per channel, and only when
\* the create exchange was acknowledged.
SchedulerCanAdd(sch, channel, acked) ==
    sch.enabled /\ ~HasEvent(sch, channel) /\ acked

SchedulerAddEvent(sch, channel, acked) ==
    IF SchedulerCanAdd(sch, channel, acked)
    THEN [sch EXCEPT !.events = Append(@, NewEvent(channel))]
    ELSE sch

\* ReadMessage::is_valid: no device error flag and bytes were received.
IsValid(frame) == frame.received /\ ~frame.error

\* ------------------------------------------------------------- Stimulator
Result(S, r) == [S |-> S, ret |-> r]

\* CloseHandle on one transport handle.
CloseHandle(h) == IF h = "open" THEN "closed" ELSE h

\* Variant: only the first transport is closed.
close_first_handle(S, i) ==
    IF i >= 1 THEN S
    ELSE Emit([S EXCEPT !.hComms[0] = CloseHandle(@)], "close", 0, TRUE, 0)

RECURSIVE close_handles(_, _)
close_handles(S, i) ==
    IF i >= m_num_ports THEN S
    ELSE close_handles(
             Emit([S EXCEPT !.hComms[i] = CloseHandle(@)], "close", i, TRUE, 0),
             i + 1)

\* Stimulator::close_stimulator
close_stimulator(S) == [close_handles(S, 0) EXCEPT !.enabled = FALSE]

\* Variant: the loop stops at the first Scheduler whose halt / delete failed.
RECURSIVE disable_schedulers_until_failure(_, _)
disable_schedulers_until_failure(S, i) ==
    IF i >= m_num_ports THEN S
    ELSE LET done == Emit([S EXCEPT !.schedulers[i] = SchedulerDisable(@)],
                          "sched_disable", i, S.halted[i], 0)
         IN  IF S.halted[i] THEN disable_schedulers_until_failure(done, i + 1) ELSE done

RECURSIVE disable_schedulers(_, _)
disable_schedulers(S, i) ==
    IF i >= m_num_ports THEN S
    ELSE disable_schedulers(
             Emit([S EXCEPT !.schedulers[i] = SchedulerDisable(@)],
                  "sched_disable", i, S.halted[i], 0),
             i + 1)

\* Variant: no is_enabled() test, the shutdown always runs.
disable_unguarded(S) ==
    [close_stimulator(disable_schedulers(S, 0)) EXCEPT !.enabled = FALSE]

\* Stimulator::disable
disable(S) ==
    [(IF S.enabled THEN close_stimulator(disable_schedulers(S, 0)) ELSE S)
        EXCEPT !.enabled = FALSE]

\* The port loop of Stimulator::enable: open_port, then configure_port.
RECURSIVE enable_ports(_, _, _)
enable_ports(S, i, in) ==
    IF i >= m_num_ports THEN [S |-> S, ok |-> TRUE]
    ELSE LET opened == Emit([S EXCEPT !.hComms[i] =
                                 IF in.open[i] THEN "open" ELSE "invalid"],
                            "open", i, in.open[i], 0)
             configured == Emit(opened, "configure", i, in.conf[i], 0)
         IN  IF ~in.open[i] THEN [S |-> opened, ok |-> FALSE]
             ELSE IF ~in.conf[i] THEN [S |-> configured, ok |-> FALSE]
             ELSE enable_ports(configured, i + 1, in)

\* Variant: the set-up goes on after a channel that failed.
RECURSIVE initialize_board_to_the_end(_, _, _)
initialize_board_to_the_end(S, k, in) ==
    IF k > Len(S.channels) THEN [S |-> S, ok |-> TRUE]
    ELSE LET sent == Emit(S, "setup", S.channels[k].board_num, in.setup[k], k)
             rest == initialize_board_to_the_end(sent, k + 1, in)
         IN  [S |-> rest.S, ok |-> in.setup[k] /\ rest.ok]

\* Stimulator::initialize_board: one setup exchange per channel, in list
\* order, on the transport of the channel's board.
RECURSIVE initialize_board(_, _, _)
initialize_board(S, k, in) ==
    IF k > Len(S.channels) THEN [S |-> S, ok |-> TRUE]
    ELSE LET sent == Emit(S, "setup", S.channels[k].board_num, in.setup[k], k)
         IN  IF ~in.setup[k] THEN [S |-> sent, ok |-> FALSE]
             ELSE initialize_board(sent, k + 1, in)

\* Variant: a failed channel setup returns without disable().
enable_partial(S, in) ==
    LET p == enable_ports(S, 0, in)
        b == initialize_board(p.S, 1, in)
    IN  IF ~p.ok THEN LET D == disable(p.S) IN Result(D, D.enabled)
        ELSE IF ~b.ok THEN Result(b.S, FALSE)
        ELSE Result([b.S EXCEPT !.enabled = TRUE], TRUE)

\* Stimulator::enable
enable(S, in) ==
    LET p == enable_ports(S, 0, in)
        b == initialize_board(p.S, 1, in)
    IN  IF ~p.ok THEN LET D == disable(p.S) IN Result(D, D.enabled)
        ELSE IF ~b.ok THEN LET D == disable(b.S) IN Result(D, D.enabled)
        ELSE Result([b.S EXCEPT !.enabled = TRUE], TRUE)

RECURSIVE send_sync_msgs(_, _, _)
send_sync_msgs(S, i, in) ==
    IF i >= m_num_ports THEN [S |-> S, ok |-> TRUE]
    ELSE LET rest == send_sync_msgs(Emit(S, "sync", i, in.sync[i], 0), i + 1, in)
         IN  [S |-> rest.S, ok |-> in.sync[i] /\ rest.ok]

\* Variant: no is_enabled() test before the sync frames.
begin_unchecked(S, in) ==
    LET r == send_sync_msgs([S EXCEPT !.enabled = TRUE], 0, in)
    IN  Result(r.S, r.ok)

\* Stimulator::begin
begin(S, in) ==
    IF S.enabled
    THEN LET r == send_sync_msgs([S EXCEPT !.enabled = TRUE], 0, in)
         IN  Result(r.S, r.ok)
    ELSE Result(S, FALSE)

\* Scheduler::get_amp / get_pw: the values of the Event of that channel.
EventOf(sch, channel) ==
    sch.events[CHOOSE k \in 1 .. Len(sch.events) :
                   sch.events[k].channel.name = channel.name]

SchedulerGetAmp(sch, channel) == EventOf(sch, channel).amplitude

SchedulerGetPw(sch, channel) == EventOf(sch, channel).pulse_width

\* Scheduler::set_amp / write_pw: a local change of the channel's Event.
SchedulerSetAmp(sch, channel, amp) ==
    [sch EXCEPT !.events =
        [k \in 1 .. Len(@) |->
            IF @[k].channel.name = channel.name
            THEN [@[k] EXCEPT !.amplitude = amp] ELSE @[k]]]

SchedulerWritePw(sch, channel, pw) ==
    [sch EXCEPT !.events =
        [k \in 1 .. Len(@) |->
            IF @[k].channel.name = channel.name
            THEN [@[k] EXCEPT !.pulse_width = pw] ELSE @[k]]]

\* Variant: the snapshot takes the values the board last acknowledged.
refresh_event_acknowledged(S, j, i) ==
    LET e == S.schedulers[j].events[i]
        n == e.channel.channel_num
    IN  IF n < Len(S.channels)
        THEN [S EXCEPT
                 !.amplitudes[n] = e.sent_amplitude,
                 !.pulsewidths[n] = e.sent_pulse_width,
                 !.max_amplitudes[n] = e.channel.max_amplitude,
                 !.max_pulsewidths[n] = e.channel.max_pulse_width]
        ELSE [S EXCEPT !.oob = TRUE]

\* The body of the snapshot loop of Stimulator::update for one Event.  The
\* arrays hold num_events entries; a write past them is recorded in oob.
refresh_event(S, j, i) ==
    LET channel_ == S.schedulers[j].events[i].channel
        n == channel_.channel_num
    IN  IF n < Len(S.channels)
        THEN [S EXCEPT
                 !.amplitudes[n] = SchedulerGetAmp(S.schedulers[j], channel_),
                 !.pulsewidths[n] = SchedulerGetPw(S.schedulers[j], channel_),
                 !.max_amplitudes[n] = channel_.max_amplitude,
                 !.max_pulsewidths[n] = channel_.max_pulse_width]
        ELSE [S EXCEPT !.oob = TRUE]

RECURSIVE refresh_snapshot(_, _, _)
refresh_snapshot(S, j, i) ==
    IF j >= m_num_ports THEN S
    ELSE IF i > Len(S.schedulers[j].events) THEN refresh_snapshot(S, j + 1, 1)
    ELSE refresh_snapshot(refresh_event(S, j, i), j, i + 1)

\* The edit frames of Scheduler::update on port i, Event by Event.
RECURSIVE SchedulerFlush(_, _, _, _)
SchedulerFlush(S, i, k, acked) ==
    IF k > Len(S.schedulers[i].events) THEN S
    ELSE LET e == S.schedulers[i].events[k]
             n == e.channel.channel_num
             amp == IF "edit_amp" \in EventDirty(e)
                    THEN Emit(S, "edit_amp", i, acked, n) ELSE S
             pw == IF "edit_pw" \in EventDirty(e)
                   THEN Emit(amp, "edit_pw", i, acked, n) ELSE amp
         IN  SchedulerFlush([pw EXCEPT !.schedulers[i].events[k] = EventUpdate(@, acked)],
                            i, k + 1, acked)

\* Scheduler::update: every Event flushes its dirty parameters.
SchedulerUpdate(S, i, acked) ==
    SchedulerFlush(Emit(S, "sched_update", i, acked, 0), i, 1, acked)

\* The Scheduler loop of Stimulator::update: every port is serviced.
\* Variant: the loop stops at the first Scheduler whose update fails.
RECURSIVE update_schedulers_until_failure(_, _, _)
update_schedulers_until_failure(S, i, in) ==
    IF i >= m_num_ports THEN [S |-> S, ok |-> TRUE]
    ELSE IF ~in.sched_ok[i]
         THEN [S |-> SchedulerUpdate(S, i, FALSE), ok |-> FALSE]
         ELSE update_schedulers_until_failure(SchedulerUpdate(S, i, TRUE), i + 1, in)

RECURSIVE update_schedulers(_, _, _)
update_schedulers(S, i, in) ==
    IF i >= m_num_ports THEN [S |-> S, ok |-> TRUE]
    ELSE LET rest == update_schedulers(SchedulerUpdate(S, i, in.sched_ok[i]), i + 1, in)
         IN  [S |-> rest.S, ok |-> in.sched_ok[i] /\ rest.ok]

\* Variant: a frame of unknown type counts as a failure.
RECURSIVE validate_known_messages(_, _, _)
validate_known_messages(S, k, frames) ==
    IF k > Len(frames) THEN [S |-> S, ok |-> TRUE]
    ELSE LET f == frames[k]
             rest == validate_known_messages(
                         Emit(S, "frame", f.port, IsValid(f), f.type), k + 1, frames)
         IN  [S |-> rest.S, ok |-> IsValid(f) /\ f.type = "known" /\ rest.ok]

\* The validation loop of Stimulator::update over the drained frames.
RECURSIVE validate_messages(_, _, _)
validate_messages(S, k, frames) ==
    IF k > Len(frames) THEN [S |-> S, ok |-> TRUE]
    ELSE LET f == frames[k]
             rest == validate_messages(
                         Emit(S, "frame", f.port, IsValid(f), f.type), k + 1, frames)
         IN  [S |-> rest.S, ok |-> IsValid(f) /\ rest.ok]

\* Variant: a failed tick returns false without disable().
update_keeps_running(S, in) ==
    IF S.enabled
    THEN LET snap == refresh_snapshot(S, 0, 1)
             u == update_schedulers(snap, 0, in)
             v == validate_messages(u.S, 1, in.frames)
         IN  Result(v.S, u.ok /\ v.ok)
    ELSE Result(S, FALSE)

\* Stimulator::update
update(S, in) ==
    IF S.enabled
    THEN LET snap == refresh_snapshot(S, 0, 1)
             u == update_schedulers(snap, 0, in)
             v == validate_messages(u.S, 1, in.frames)
             success == u.ok /\ v.ok
         IN  Result(IF ~success THEN disable(v.S) ELSE v.S, success)
    ELSE Result(S, FALSE)

\* The tick duration of Stimulator::create_scheduler in milliseconds: the
\* double 1.0 / frequency_ * 1000 converted to unsigned int, each operation
\* rounded to the nearest double; 50 for a frequency that is not positive.
duration(frequency_) ==
    IF Positive(frequency_)
    THEN Truncated(Product(Reciprocal(frequency_), 1000))
    ELSE 50

\* The arguments of create_scheduler: the sync byte and the frequency in Hz
\* (0xAA at 40 Hz, no frequency, 200/3 Hz which is not a whole number, a
\* negative one).
CreateCalls ==
    {<<170, Double(40, 1)>>, <<170, Double(0, 1)>>,
     <<85, Double(200, 3)>>, <<85, Double(-2, 1)>>}

\* The duration of each frequency a call passes, computed once.
Durations == [frequency_ \in {c[2] : c \in CreateCalls} |-> duration(frequency_)]

\* Variant: the identifier of a valid acknowledgement is not stored.
RECURSIVE create_schedulers_noid(_, _, _, _)
create_schedulers_noid(S, i, in, duration_) ==
    IF i >= m_num_ports THEN [S |-> S, done |-> TRUE]
    ELSE LET made == Emit([S EXCEPT !.schedulers[i] = SchedulerCreate(@, in.sent[i])],
                          "sched_create", i, in.sent[i],
                          <<in.sync_msg, duration_>>)
             ack == in.ack[i]
             read == Emit(made, "ack", i, IsValid(ack), ack.data)
         IN  IF m_is_virtual THEN create_schedulers_noid(made, i + 1, in, duration_)
             ELSE IF IsValid(ack) THEN create_schedulers_noid(read, i + 1, in, duration_)
             ELSE [S |-> disable(read), done |-> FALSE]

\* The port loop of Stimulator::create_scheduler.  The result of
\* Scheduler::create_scheduler goes to a variable local to the loop body.
RECURSIVE create_schedulers(_, _, _, _)
create_schedulers(S, i, in, duration_) ==
    IF i >= m_num_ports THEN [S |-> S, done |-> TRUE]
    ELSE LET made == Emit([S EXCEPT !.schedulers[i] = SchedulerCreate(@, in.sent[i])],
                          "sched_create", i, in.sent[i],
                          <<in.sync_msg, duration_>>)
             ack == in.ack[i]
             read == Emit(made, "ack", i, IsValid(ack), ack.data)
             idset == Emit([read EXCEPT !.schedulers[i] = SchedulerSetId(@, ack.data)],
                           "set_id", i, TRUE, ack.data)
         IN  IF m_is_virtual THEN create_schedulers(made, i + 1, in, duration_)
             ELSE IF IsValid(ack) THEN create_schedulers(idset, i + 1, in, duration_)
             ELSE [S |-> disable(read), done |-> FALSE]

\* Stimulator::create_scheduler.  `success` of the function scope is set to
\* false at its declaration and never assigned afterwards.
create_scheduler(S, in) ==
    LET success == FALSE
        duration_ == Durations[in.frequency_]
        r == create_schedulers(S, 0, in, duration_)
    IN  IF S.enabled
        THEN IF r.done THEN Result(r.S, success) ELSE Result(r.S, FALSE)
        ELSE Result(S, FALSE)

\* Stimulator::add_event
add_event(S, channel_, acked) ==
    LET b == channel_.board_num
        success == SchedulerCanAdd(S.schedulers[b], channel_, acked)
    IN  IF S.enabled
        THEN Result(Emit([S EXCEPT !.schedulers[b] =
                                SchedulerAddEvent(@, channel_, acked)],
                         "add_event", b, success, channel_.channel_num),
                    success)
        ELSE Result(S, FALSE)

\* Variant: the batch goes on after a channel that failed.
RECURSIVE add_events_all(_, _, _, _)
add_events_all(S, i, channels_, acked) ==
    IF i > Len(channels_) THEN Result(S, TRUE)
    ELSE LET r == add_event(S, channels_[i], acked[i])
             rest == add_events_all(r.S, i + 1, channels_, acked)
         IN  Result(rest.S, r.ret /\ rest.ret)

RECURSIVE add_events_from(_, _, _, _)
add_events_from(S, i, channels_, acked) ==
    IF i > Len(channels_) THEN Result(S, TRUE)
    ELSE LET r == add_event(S, channels_[i], acked[i])
         IN  IF ~r.ret THEN Result(r.S, FALSE)
             ELSE add_events_from(r.S, i + 1, channels_, acked)

\* Stimulator::add_events
add_events(S, channels_, acked) ==
    IF S.enabled THEN add_events_from(S, 1, channels_, acked)
    ELSE Result(S, FALSE)

\* Variant: no is_enabled() test before the Scheduler is called.
set_amp_unguarded(S, channel_, amp_) ==
    LET b == channel_.board_num
    IN  Emit([S EXCEPT !.schedulers[b] = SchedulerSetAmp(@, channel_, amp_)],
             "set_amp", b, TRUE, channel_.channel_num)

\* Variant: every change goes to the Scheduler of the first board.
set_amp_first_board(S, channel_, amp_) ==
    IF S.enabled
    THEN Emit([S EXCEPT !.schedulers[0] = SchedulerSetAmp(@, channel_, amp_)],
              "set_amp", 0, TRUE, channel_.channel_num)
    ELSE S

\* Stimulator::set_amp
set_amp(S, channel_, amp_) ==
    LET b == channel_.board_num
    IN  IF S.enabled
        THEN Emit([S EXCEPT !.schedulers[b] = SchedulerSetAmp(@, channel_, amp_)],
                  "set_amp", b, TRUE, channel_.channel_num)
        ELSE S

\* Stimulator::write_pw
write_pw(S, channel_, pw_) ==
    LET b == channel_.board_num
    IN  IF S.enabled
        THEN Emit([S EXCEPT !.schedulers[b] = SchedulerWritePw(@, channel_, pw_)],
                  "write_pw", b, TRUE, channel_.channel_num)
        ELSE S

\* Stimulator::set_amps: set_amp, channel by channel.
RECURSIVE set_amps(_, _, _, _)
set_amps(S, i, channels_, amplitudes_) ==
    IF i > Len(channels_) THEN S
    ELSE set_amps(set_amp(S, channels_[i], amplitudes_[i]), i + 1, channels_, amplitudes_)

\* Stimulator::write_pws: write_pw, channel by channel.
RECURSIVE write_pws(_, _, _, _)
write_pws(S, i, channels_, pulsewidths_) ==
    IF i > Len(channels_) THEN S
    ELSE write_pws(write_pw(S, channels_[i], pulsewidths_[i]), i + 1, channels_, pulsewidths_)

\* Position of the first channel of the list with that name, 0 if none.
FirstNamed(channels, name) ==
    IF \E k \in 1 .. Len(channels) : channels[k].name = name
    THEN CHOOSE k \in 1 .. Len(channels) :
             /\ channels[k].name = name
             /\ \A h \in 1 .. (k - 1) : channels[h].name # name
    ELSE 0

\* Variant: every channel of that name gets the new ceiling.
update_max_amp_all_named(S, channel_, max_amp_) ==
    [S EXCEPT !.channels =
        [k \in 1 .. Len(@) |->
            IF @[k].name = channel_.name
            THEN [@[k] EXCEPT !.max_amplitude = max_amp_] ELSE @[k]]]

\* Stimulator::update_max_amp
update_max_amp(S, channel_, max_amp_) ==
    LET k == FirstNamed(S.channels, channel_.name)
    IN  IF k = 0 THEN S ELSE [S EXCEPT !.channels[k].max_amplitude = max_amp_]

\* Stimulator::update_max_pw
update_max_pw(S, channel_, max_pw_) ==
    LET k == FirstNamed(S.channels, channel_.name)
    IN  IF k = 0 THEN S ELSE [S EXCEPT !.channels[k].max_pulse_width = max_pw_]

\* Scheduler::halt_scheduler: a halt frame, best effort.
SchedulerHalt(sch) == sch

RECURSIVE halt_schedulers(_, _, _)
halt_schedulers(S, i, in) ==
    IF i >= m_num_ports THEN [S |-> S, ok |-> TRUE]
    ELSE LET rest == halt_schedulers(
                         Emit([S EXCEPT !.schedulers[i] = SchedulerHalt(@)],
                              "halt", i, in.halt[i], 0), i + 1, in)
         IN  [S |-> rest.S, ok |-> in.halt[i] /\ rest.ok]

\* Stimulator::halt_scheduler
halt_scheduler(S, in) ==
    LET r == halt_schedulers(S, 0, in) IN Result(r.S, r.ok)

\* ------------------------------------------------------------------ inputs
ConfiguredPorts == 0 .. (m_num_ports - 1)

Ceilings == {50, 100}

\* Outcomes of the exchanges of one enable() call.  enable() stops at the
\* first exchange that fails, so at most one of them is chosen to fail.
Failures(in, np, channels) ==
    Cardinality({i \in 0 .. (np - 1) : ~in.open[i]})
    + Cardinality({i \in 0 .. (np - 1) : ~in.conf[i]})
    + Cardinality({k \in 1 .. Len(channels) : ~in.setup[k]})

EnableInputs(np, channels) ==
    {in \in [open : [0 .. (np - 1) -> BOOLEAN], conf : [0 .. (np - 1) -> BOOLEAN],
             setup : [1 .. Len(channels) -> BOOLEAN]] :
        Failures(in, np, channels) <= 1}

\* An inbound frame: the port it came from, its type classification, the
\* device error flag, and whether any byte arrived before the read timeout.
Frames(ports) ==
    [port : ports, type : {"known", "unknown"}, error : BOOLEAN, received : {TRUE}]

SeqsUpTo(S, n) == UNION {[1 .. k -> S] : k \in 0 .. n}

\* What one tick drains: the frames of port 0, then those of port 1.
Drained1 == SeqsUpTo(Frames({0}), MaxFrames)

Drained2 == {a \o b : a \in Drained1, b \in SeqsUpTo(Frames({1}), MaxFrames)}

Drained(np) == IF np = 1 THEN Drained1 ELSE Drained2

BatchLists == SeqsUpTo(ChannelPool, MaxBatch)

\* The channel lists given to set_amps / write_pws: two channels, the two
\* boards in either order or the same channel twice.
EditLists == [1 .. 2 -> ChannelPool]

\* What a tick drains while parameters are being changed: one frame at most.
DrainedFew == SeqsUpTo(Frames(ConfiguredPorts), 1)

\* The outcomes a call draws from: a disabled Stimulator returns before any
\* exchange, so one outcome stands for all of them.
Drawn(outcomes) == IF m_enabled THEN outcomes ELSE {CHOOSE o \in outcomes : TRUE}

\* What read_message(hComm, true) hands back in the handshake: nothing (the
\* read timed out), or a frame with or without the error flag.
Acks ==
    [received : {FALSE}, error : {FALSE}, data : {0}]
    \cup [received : {TRUE}, error : {TRUE}, data : {0}]
    \cup [received : {TRUE}, error : {FALSE}, data : 0 .. MaxId]

\* The outcomes of the create exchanges of one add_events() call: the batch
\* stops at the first channel that fails, so at most one is chosen to fail.
AckLists(n) ==
    {acked \in [1 .. n -> BOOLEAN] : Cardinality({k \in 1 .. n : ~acked[k]}) <= 1}

NoAck == [received |-> FALSE, error |-> FALSE, data |-> 0]

\* The outcomes of the handshakes of one create_scheduler() call.  A virtual
\* Stimulator reads no acknowledgement, and the call returns at the first
\* invalid one: what would come after it is left at a fixed value.
Handshakes(np, calls) ==
    {h \in [sent : [0 .. (np - 1) -> BOOLEAN], ack : [0 .. (np - 1) -> Acks],
             sync_msg : {c[1] : c \in calls},
             frequency_ : {c[2] : c \in calls}] :
        /\ <<h.sync_msg, h.frequency_>> \in calls
        /\ m_is_virtual => \A i \in 0 .. (np - 1) : h.ack[i] = NoAck
        /\ \A i \in 0 .. (np - 1) :
               (\E j \in 0 .. (i - 1) : ~m_is_virtual /\ ~IsValid(h.ack[j]))
                   => h.sent[i] /\ h.ack[i] = NoAck}

\* --------------------------------------------------------------- the state
\* The members as the constructor's initialiser list leaves them.
Constructed(channels) ==
    [enabled |-> FALSE,
     hComms |-> [i \in Ports |-> "unset"],
     schedulers |-> [i \in Ports |-> NewScheduler],
     channels |-> channels,
     amplitudes |-> [k \in 0 .. (Len(channels) - 1) |-> 0],
     pulsewidths |-> [k \in 0 .. (Len(channels) - 1) |-> 0],
     max_amplitudes |-> [k \in 0 .. (Len(channels) - 1) |-> channels[k + 1].max_amplitude],
     max_pulsewidths |-> [k \in 0 .. (Len(channels) - 1) |-> channels[k + 1].max_pulse_width],
     oob |-> FALSE, halted |-> [i \in Ports |-> TRUE], log |-> <<>>]

\* Whether a call's record l holds such an exchange on that port, and whether
\* one that succeeded.
Did(l, what, port) == \E k \in 1 .. Len(l) : l[k][1] = what /\ l[k][2] = port

DidOk(l, what, port) ==
    \E k \in 1 .. Len(l) : l[k][1] = what /\ l[k][2] = port /\ l[k][3]

\* The handshakes in force after a call with record l: Scheduler::disable
\* ends the one of its port, and create_scheduler's exchange on a port sets
\* it up when the setup frame went out and, on a real Stimulator, a valid
\* acknowledgement came back.
Handshook(before, l) ==
    [i \in Ports |->
        IF Did(l, "sched_disable", i) THEN FALSE
        ELSE IF Did(l, "sched_create", i)
             THEN DidOk(l, "sched_create", i) /\ (m_is_virtual \/ DidOk(l, "ack", i))
             ELSE before[i]]

\* ------------------------------------------------------------ VirtualStim
MaxSent == 1       \* frames written to the VirtualStim's port in one run

\* m_recent_messages(39): the capacity of the ring buffer.
RingSize == 39

\* The monitor slots poll() files a message under, by member name.
Monitors ==
    {"m_channel_setup_message", "m_scheduler_setup_message", "m_event_create_message",
     "m_scheduler_sync_message", "m_event_edit_1_message", "m_event_edit_2_message",
     "m_event_edit_3_message", "m_event_edit_4_message", "m_scheduler_halt_message",
     "m_event_delete_message", "m_scheduler_delete_message", "m_unknown_message"}

\* A SerialMessage: the bytes and the message number (the time stamp is left
\* out).
SerialMessage(message, msg_num) == [message |-> message, msg_num |-> msg_num]

\* A frame as it is written to the port: the four header bytes, the fourth
\* being the body length less one, and the body.
Frame(sync, address, type, body) == <<sync, address, type, Len(body) - 1>> \o body

\* The frames written to the port: one of every type poll() knows, an
\* event-edit frame for every parameter byte 1 .. 5, a type it does not
\* know (0x01), a longer body, a foreign sync byte and a foreign address.
Sendable ==
    {Frame(4, 128, type, <<1>>) : type \in {71, 16, 23, 4, 27, 21, 18, 25, 1}}
    \cup {Frame(4, 128, 25, <<b>>) : b \in 2 .. 5}
    \cup {Frame(4, 128, 71, <<1, 2>>), Frame(255, 128, 71, <<1>>), Frame(4, 129, 71, <<1>>)}

\* What a byte of msg_header holds that ReadFile did not write: what the
\* array held before (<<>>), or the fill of a checked build (<<0xCC>>).
StackFills == {<<>>, <<204>>}

\* What a byte of the new[] body holds that ReadFile did not write: zero or
\* the fill of a debug heap (0xCD).
HeapFills == {0, 205}

\* ReadFile(m_hComm, buffer, size, &dwBytesRead, NULL): the call fails and
\* reads nothing, or it returns the bytes that arrived before the timeout,
\* which may be fewer than size.
ReadFile(pending, size, ok, arrived) ==
    LET n == IF ok THEN arrived ELSE 0
    IN  [ok |-> ok, dwBytesRead |-> n,
         bytes |-> SubSeq(pending, 1, n),
         pending |-> SubSeq(pending, n + 1, Len(pending))]

\* The buffer after the read: the bytes read, then what the buffer held.
Buffer(size, read, untouched) ==
    [i \in 1 .. size |-> IF i <= Len(read) THEN read[i] ELSE untouched[i]]

\* The test of line 245: sync byte 0x04 and board address 0x80.
Accepted(header) == header[1] = 4 /\ header[2] = 128

\* The switch of lines 260-328 on the type byte: the monitor slots it
\* writes.
switch(header, body) ==
    CASE header[3] = 71 -> {"m_channel_setup_message"}
      [] header[3] = 16 -> {"m_scheduler_setup_message"}
      [] header[3] = 23 -> {"m_event_delete_message"}
      [] header[3] = 4 -> {"m_scheduler_halt_message"}
      [] header[3] = 27 -> {"m_scheduler_sync_message"}
      [] header[3] = 21 -> {"m_event_create_message"}
      [] header[3] = 18 -> {"m_scheduler_delete_message"}
      [] header[3] = 25 ->
            IF body[1] = 1 THEN {"m_event_edit_1_message"}
            ELSE IF body[1] = 2 THEN {"m_event_edit_2_message"}
            ELSE IF body[1] = 3 THEN {"m_event_edit_3_message"}
            ELSE IF body[1] = 4 THEN {"m_event_edit_4_message"}
            ELSE {}
      [] OTHER -> {"m_unknown_message"}

\* RingBuffer::push_back: the oldest entry makes room.
push_back(ring, x) ==
    IF Len(ring) < RingSize THEN Append(ring, x) ELSE Append(Tail(ring), x)

\* The VirtualStim after its constructor: nothing received yet.
Listening ==
    /\ m_open = TRUE
    /\ m_pause = FALSE
    /\ wire = <<>>
    /\ written = 0
    /\ msg_header = <<0, 0, 0, 0>>
    /\ m_msg_count = 0
    /\ m_recent_message = SerialMessage(<<>>, 0)
    /\ m_recent_messages = <<>>
    /\ m_recent_feed = <<>>
    /\ monitors = [s \in Monitors |-> SerialMessage(<<>>, 0)]
    /\ polled = [header |-> <<>>, body_size |-> 0, body |-> <<>>,
                 recorded |-> FALSE, touched |-> {}, grew |-> 0]

\* The four snapshot arrays of a state record.
SnapshotOf(S) ==
    [amplitudes |-> S.amplitudes, pulsewidths |-> S.pulsewidths,
     max_amplitudes |-> S.max_amplitudes, max_pulsewidths |-> S.max_pulsewidths]

\* No tick under way, no reader, the mutex free.
Quiet(S) ==
    /\ m_mtx = "free"
    /\ tick = "idle"
    /\ refreshed = 0
    /\ reading = FALSE
    /\ copy = <<>>
    /\ published = SnapshotOf(S)
    /\ Listening

\* The members after a call that left the state record S.
Holds(S) ==
    /\ m_enabled = S.enabled
    /\ m_hComms = S.hComms
    /\ m_schedulers = S.schedulers
    /\ m_channels = S.channels
    /\ amplitudes = S.amplitudes
    /\ pulsewidths = S.pulsewidths
    /\ max_amplitudes = S.max_amplitudes
    /\ max_pulsewidths = S.max_pulsewidths
    /\ oob = S.oob
    /\ log = S.log
    /\ handshook = Handshook([i \in Ports |-> FALSE], S.log)

\* Stimulator::Stimulator: the initialiser list, the port count, enable().
Constructs(c) ==
    /\ m_num_ports = c.num_ports
    /\ m_is_virtual = c.is_virtual
    /\ \E in \in EnableInputs(c.num_ports, c.channels) :
           LET S == enable(Constructed(c.channels), in).S IN Holds(S) /\ Quiet(S)
    /\ edits = 0
    /\ op = "Stimulator"
    /\ ret = <<>>
    /\ pre_enabled = FALSE
    /\ batch = <<>>
    /\ args = <<>>
    /\ drained = <<>>

Init == \E c \in Constructions : Constructs(c)

Assign(name, S, r) ==
    /\ m_enabled' = S.enabled
    /\ m_hComms' = S.hComms
    /\ m_schedulers' = S.schedulers
    /\ m_channels' = S.channels
    /\ amplitudes' = S.amplitudes
    /\ pulsewidths' = S.pulsewidths
    /\ max_amplitudes' = S.max_amplitudes
    /\ max_pulsewidths' = S.max_pulsewidths
    /\ oob' = S.oob
    /\ log' = S.log
    /\ handshook' = Handshook(handshook, S.log)
    /\ op' = name
    /\ ret' = r
    /\ pre_enabled' = m_enabled
    /\ UNCHANGED <<receiver, m_num_ports, m_is_virtual>>

\* A call made while no other thread is looked at: a tick in one piece
\* leaves a complete refresh behind.
Commit(name, S, r) ==
    /\ Assign(name, S, r)
    /\ published' = SnapshotOf(S)
    /\ UNCHANGED <<m_mtx, tick, refreshed, reading, copy>>

\* What a call that takes no list, no frequency and drains nothing leaves
\* in the record of its inputs.
NoInputs == batch' = <<>> /\ args' = <<>> /\ drained' = <<>>

\* A parameter or ceiling change: the channels and the values it was given.
Edit(channels_, values) ==
    /\ edits < MaxEdits /\ edits' = edits + 1
    /\ batch' = channels_ /\ args' = values /\ drained' = <<>>

\* A life-cycle call: no parameter or ceiling change, no channel list.
Plain == UNCHANGED edits /\ NoInputs

\* ----------------------------------------------------------------- actions
Enable ==
    \E in \in EnableInputs(m_num_ports, m_channels) :
        LET r == enable(State, in) IN Commit("enable", r.S, <<r.ret>>) /\ Plain

Disable ==
    \E h \in Drawn([ConfiguredPorts -> BOOLEAN]) :
        LET halted == [i \in Ports |-> IF i \in ConfiguredPorts THEN h[i] ELSE TRUE]
        IN  Commit("disable", disable([State EXCEPT !.halted = halted]), <<>>) /\ Plain

Begin ==
    \E sync \in Drawn([ConfiguredPorts -> BOOLEAN]) :
        LET r == begin(State, [sync |-> sync]) IN Commit("begin", r.S, <<r.ret>>) /\ Plain

UpdateDraining(inbound) ==
    \E sched_ok \in Drawn([ConfiguredPorts -> BOOLEAN]),
       frames \in Drawn(inbound) :
        LET r == update(State, [sched_ok |-> sched_ok, frames |-> frames])
        IN  /\ Commit("update", r.S, <<r.ret>>)
            /\ UNCHANGED edits /\ batch' = <<>> /\ args' = <<>>
            /\ drained' = (IF m_enabled THEN frames ELSE <<>>)

Update == UpdateDraining(Drained(m_num_ports))

CreateSchedulerGiven(calls) ==
    \E h \in Drawn(Handshakes(m_num_ports, calls)) :
        LET r == create_scheduler(State, h)
        IN  /\ Commit("create_scheduler", r.S, <<r.ret>>)
            /\ UNCHANGED edits /\ batch' = <<>> /\ drained' = <<>>
            /\ args' = <<h.sync_msg, h.frequency_>>

CreateScheduler == CreateSchedulerGiven(CreateCalls)

AddEvent ==
    \E channel_ \in ChannelPool, acked \in Drawn(BOOLEAN) :
        LET r == add_event(State, channel_, acked) IN Commit("add_event", r.S, <<r.ret>>) /\ Plain

AddEventsGiven(lists) ==
    \E channels_ \in lists :
        \E acked \in Drawn(AckLists(Len(channels_))) :
            LET r == add_events(State, channels_, acked)
            IN  /\ Commit("add_events", r.S, <<r.ret>>)
                /\ UNCHANGED edits /\ batch' = channels_
                /\ args' = <<>> /\ drained' = <<>>

AddEvents == AddEventsGiven(BatchLists)

SetAmp ==
    \E channel_ \in ChannelPool, amp_ \in 0 .. MaxAmp :
        /\ Commit("set_amp", set_amp(State, channel_, amp_), <<>>)
        /\ Edit(<<channel_>>, <<amp_>>)

WritePw ==
    \E channel_ \in ChannelPool, pw_ \in 0 .. MaxAmp :
        /\ Commit("write_pw", write_pw(State, channel_, pw_), <<>>)
        /\ Edit(<<channel_>>, <<pw_>>)

SetAmps ==
    \E channels_ \in EditLists :
        \E amplitudes_ \in Drawn([1 .. Len(channels_) -> 0 .. MaxAmp]) :
            /\ Commit("set_amps", set_amps(State, 1, channels_, amplitudes_), <<>>)
            /\ Edit(channels_, amplitudes_)

WritePws ==
    \E channels_ \in EditLists :
        \E pulsewidths_ \in Drawn([1 .. Len(channels_) -> 0 .. MaxAmp]) :
            /\ Commit("write_pws", write_pws(State, 1, channels_, pulsewidths_), <<>>)
            /\ Edit(channels_, pulsewidths_)

UpdateMaxAmp ==
    \E channel_ \in ChannelPool, max_amp_ \in Ceilings :
        /\ Commit("update_max_amp", update_max_amp(State, channel_, max_amp_), <<>>)
        /\ Edit(<<channel_>>, <<max_amp_>>)

UpdateMaxPw ==
    \E channel_ \in ChannelPool, max_pw_ \in Ceilings :
        /\ Commit("update_max_pw", update_max_pw(State, channel_, max_pw_), <<>>)
        /\ Edit(<<channel_>>, <<max_pw_>>)

HaltScheduler ==
    \E halt \in [ConfiguredPorts -> BOOLEAN] :
        LET r == halt_scheduler(State, [halt |-> halt])
        IN  Commit("halt_scheduler", r.S, <<r.ret>>) /\ Plain

Next ==
    \/ Enable
    \/ Disable
    \/ Begin
    \/ Update
    \/ CreateScheduler
    \/ AddEvent
    \/ AddEvents
    \/ HaltScheduler

\* The life cycle of the Stimulator: every operation that opens, closes,
\* starts, ticks or stops it.
Spec == Init /\ [][Next]_vars

\* A channel list whose last channel carries the name of the first.
again == Chan("bicep", 2, 0)

EditConstructions ==
    {[channels |-> <<bicep>>, num_ports |-> 1, is_virtual |-> FALSE],
     [channels |-> <<bicep, tricep, again>>, num_ports |-> 2, is_virtual |-> FALSE]}

InitEdits == \E c \in EditConstructions : Constructs(c)

Tick == UpdateDraining(DrainedFew)

\* The set-up calls come before the first parameter or ceiling change, as in
\* examples/test_stim.cpp: create_scheduler, add_events, begin, then the loop
\* of changes and ticks.
SettingUp == edits = 0

Reenable == SettingUp /\ Enable

Start == SettingUp /\ Begin

CreateSchedulerAt40 ==
    SettingUp /\ CreateSchedulerGiven({<<170, Double(40, 1)>>})

AddOne == SettingUp /\ AddEvent

AddPair == SettingUp /\ AddEventsGiven(EditLists)

NextEdits ==
    \/ Reenable
    \/ Disable
    \/ Start
    \/ Tick
    \/ CreateSchedulerAt40
    \/ AddOne
    \/ AddPair
    \/ SetAmp
    \/ WritePw
    \/ SetAmps
    \/ WritePws
    \/ UpdateMaxAmp
    \/ UpdateMaxPw

\* The life cycle together with the parameter and ceiling changes.
SpecEdits == InitEdits /\ [][NextEdits]_vars

\* ------------------------------------------------- the snapshot and a reader
\* Stimulator::update step by step, next to a reader thread that copies the
\* snapshot under the same mutex.

\* The Events in the order the refresh loops visit them: <<port, index>>.
RECURSIVE RefreshOrder(_)
RefreshOrder(j) ==
    IF j >= m_num_ports THEN <<>>
    ELSE [i \in 1 .. Len(m_schedulers[j].events) |-> <<j, i>>] \o RefreshOrder(j + 1)

\* Variant: the lock is taken and released around each Event's four writes.
lock_scope_one_event(n) == 1

\* The Events whose values are written under one hold of the lock_guard of
\* Stimulator::update: its scope encloses both loops, so all n of them.
lock_scope(n) == n

\* What update() does after the refresh: the scheduler loop, the drain and
\* validation of inbound frames, disable() on failure.
flush_and_validate(S, in) ==
    LET u == update_schedulers(S, 0, in)
        v == validate_messages(u.S, 1, in.frames)
        success == u.ok /\ v.ok
    IN  Result(IF ~success THEN disable(v.S) ELSE v.S, success)

\* The Stimulator of the example: two ports, three channels, the schedulers
\* created at 40 Hz and one Event added per channel.
InitSnapshot ==
    /\ m_num_ports = 2
    /\ m_is_virtual = FALSE
    /\ LET all == <<bicep, tricep, forearm>>
           enabled == enable(Constructed(all),
                             [open |-> [i \in Ports |-> TRUE],
                              conf |-> [i \in Ports |-> TRUE],
                              setup |-> [k \in 1 .. 3 |-> TRUE]]).S
           created == create_scheduler(
                          enabled,
                          [sent |-> [i \in Ports |-> TRUE],
                           ack |-> [i \in Ports |->
                                       [received |-> TRUE, error |-> FALSE, data |-> 1]],
                           sync_msg |-> 170, frequency_ |-> Double(40, 1)]).S
           added == add_events(created, all, [k \in 1 .. 3 |-> TRUE]).S
       IN  Holds(added) /\ Quiet(added)
    /\ edits = 0
    /\ op = "add_events"
    /\ ret = <<TRUE>>
    /\ pre_enabled = TRUE
    /\ batch = <<bicep, tricep, forearm>>
    /\ args = <<>>
    /\ drained = <<>>

\* The control thread changes amplitudes between two ticks.
SetAmpsBetweenTicks == tick = "idle" /\ SetAmps

\* is_enabled() at the head of update(): a disabled Stimulator returns false.
UpdateEnter ==
    /\ tick = "idle"
    /\ IF m_enabled
       THEN /\ tick' = "lock" /\ refreshed' = 0
            /\ UNCHANGED <<receiver, m_num_ports, m_is_virtual, m_channels, m_enabled, m_hComms,
                           m_schedulers, amplitudes, pulsewidths, max_amplitudes,
                           max_pulsewidths, oob, edits, op, ret, pre_enabled, batch,
                           args, drained, handshook, log,
                           m_mtx, reading, copy, published>>
       ELSE Commit("update", State, <<FALSE>>) /\ Plain

\* The lock_guard is constructed: update() waits until the mutex is free.
UpdateLock ==
    /\ tick = "lock" /\ m_mtx = "free"
    /\ m_mtx' = "update"
    /\ tick' = (IF refreshed < Len(RefreshOrder(0)) THEN "write" ELSE "unlock")
    /\ UNCHANGED <<receiver, m_num_ports, m_is_virtual, m_channels, m_enabled, m_hComms,
                   m_schedulers, amplitudes, pulsewidths, max_amplitudes,
                   max_pulsewidths, oob, edits, op, ret, pre_enabled, batch,
                   args, drained, handshook, log,
                   refreshed, reading, copy, published>>

\* One pass of the inner loop: the four arrays' entries of one Event's channel.
UpdateRefresh ==
    /\ tick = "write" /\ m_mtx = "update"
    /\ LET at == RefreshOrder(0)[refreshed + 1]
           S == refresh_event(State, at[1], at[2])
           n == Len(RefreshOrder(0))
       IN  /\ amplitudes' = S.amplitudes
           /\ pulsewidths' = S.pulsewidths
           /\ max_amplitudes' = S.max_amplitudes
           /\ max_pulsewidths' = S.max_pulsewidths
           /\ oob' = S.oob
           /\ refreshed' = refreshed + 1
           /\ tick' = (IF refreshed' = n \/ refreshed' % lock_scope(n) = 0
                       THEN "unlock" ELSE "write")
    /\ UNCHANGED <<receiver, m_num_ports, m_is_virtual, m_channels, m_enabled, m_hComms,
                   m_schedulers, edits, op, ret, pre_enabled, batch,
                   args, drained, handshook, log,
                   m_mtx, reading, copy, published>>

\* The lock_guard goes out of scope.
UpdateUnlock ==
    /\ tick = "unlock" /\ m_mtx = "update"
    /\ m_mtx' = "free"
    /\ IF refreshed = Len(RefreshOrder(0))
       THEN tick' = "flush" /\ published' = SnapshotOf(State)
       ELSE tick' = "lock" /\ UNCHANGED published
    /\ UNCHANGED <<receiver, m_num_ports, m_is_virtual, m_channels, m_enabled, m_hComms,
                   m_schedulers, amplitudes, pulsewidths, max_amplitudes,
                   max_pulsewidths, oob, edits, op, ret, pre_enabled, batch,
                   args, drained, handshook, log,
                   refreshed, reading, copy>>

\* The rest of the tick, outside the lock.
UpdateFinish ==
    /\ tick = "flush"
    /\ \E sched_ok \in [ConfiguredPorts -> BOOLEAN], frames \in DrainedFew :
           LET r == flush_and_validate(State, [sched_ok |-> sched_ok, frames |-> frames])
           IN  /\ Assign("update", r.S, <<r.ret>>)
               /\ UNCHANGED edits /\ batch' = <<>> /\ args' = <<>>
               /\ drained' = frames
    /\ tick' = "idle" /\ refreshed' = 0
    /\ UNCHANGED <<m_mtx, reading, copy, published>>

\* A reader thread takes the mutex.
ReaderLock ==
    /\ ~reading /\ m_mtx = "free"
    /\ m_mtx' = "reader" /\ reading' = TRUE /\ copy' = <<>>
    /\ UNCHANGED <<receiver, m_num_ports, m_is_virtual, m_channels, m_enabled, m_hComms,
                   m_schedulers, amplitudes, pulsewidths, max_amplitudes,
                   max_pulsewidths, oob, edits, op, ret, pre_enabled, batch,
                   args, drained, handshook, log,
                   tick, refreshed, published>>

\* The entries of snapshot s for channel number n.
Entry(s, n) ==
    <<s.amplitudes[n], s.pulsewidths[n], s.max_amplitudes[n], s.max_pulsewidths[n]>>

\* The reader copies the four entries of the next channel.
ReaderRead ==
    /\ reading /\ Len(copy) < Len(m_channels)
    /\ copy' = Append(copy, Entry(SnapshotOf(State), Len(copy)))
    /\ UNCHANGED <<receiver, m_num_ports, m_is_virtual, m_channels, m_enabled, m_hComms,
                   m_schedulers, amplitudes, pulsewidths, max_amplitudes,
                   max_pulsewidths, oob, edits, op, ret, pre_enabled, batch,
                   args, drained, handshook, log,
                   m_mtx, tick, refreshed, reading, published>>

\* The reader has its copy and releases the mutex.
ReaderUnlock ==
    /\ reading /\ Len(copy) = Len(m_channels)
    /\ m_mtx' = "free" /\ reading' = FALSE
    /\ UNCHANGED <<receiver, m_num_ports, m_is_virtual, m_channels, m_enabled, m_hComms,
                   m_schedulers, amplitudes, pulsewidths, max_amplitudes,
                   max_pulsewidths, oob, edits, op, ret, pre_enabled, batch,
                   args, drained, handshook, log,
                   tick, refreshed, copy, published>>

NextSnapshot ==
    \/ SetAmpsBetweenTicks
    \/ UpdateEnter
    \/ UpdateLock
    \/ UpdateRefresh
    \/ UpdateUnlock
    \/ UpdateFinish
    \/ ReaderLock
    \/ ReaderRead
    \/ ReaderUnlock

\* The control thread's ticks next to one reader of the snapshot.
SpecSnapshot == InitSnapshot /\ [][NextSnapshot]_vars

\* ------------------------------------------------------- channel lists
\* Channel lists whose positions are not the channel numbers: the second
\* channel of the boards alone, and two channels in reverse order.
ListConstructions ==
    {[channels |-> <<tricep>>, num_ports |-> 2, is_virtual |-> FALSE],
     [channels |-> <<tricep, bicep>>, num_ports |-> 2, is_virtual |-> FALSE]}

InitLists == \E c \in ListConstructions : Constructs(c)

\* The life cycle and the parameter changes on such a list.
SpecLists == InitLists /\ [][NextEdits]_vars

\* channel_names as the constructor fills it: entry i is the name of
\* m_channels[i]; no operation changes a name.
channel_names == [k \in 0 .. (Len(m_channels) - 1) |-> m_channels[k + 1].name]

\* ----------------------------------------------------- VirtualStim::poll
\* The host writes a frame to the port.
Send ==
    /\ written < MaxSent
    /\ \E frame \in Sendable : wire' = wire \o frame
    /\ written' = written + 1
    /\ UNCHANGED <<stimulator, m_open, m_pause, msg_header, m_msg_count,
                   m_recent_message, m_recent_messages, m_recent_feed, monitors, polled>>

\* One pass of the loop of poll(): the header read, the body read, the test
\* of sync byte and address, the recent message and its monitor slot.
Poll ==
    /\ m_open
    /\ \E header_ok \in BOOLEAN, body_ok \in BOOLEAN,
          header_arrived \in 0 .. 4, body_arrived \in 0 .. Len(wire),
          stack \in StackFills, heap \in HeapFills :
        LET first == ReadFile(wire, 4, header_ok, header_arrived)
            header == Buffer(4, first.bytes,
                             IF stack = <<>> THEN msg_header
                             ELSE [i \in 1 .. 4 |-> stack[1]])
            body_size == header[4] + 1
            second == ReadFile(first.pending, body_size, body_ok, body_arrived)
            body == Buffer(body_size, second.bytes, [i \in 1 .. body_size |-> heap])
            msg == header \o body
        IN  /\ header_arrived <= Len(wire)
            /\ header_ok \/ header_arrived = 0
            /\ msg_header' = header
            /\ IF first.dwBytesRead = 0
               THEN /\ body_ok /\ body_arrived = 0 /\ heap = 0
                    /\ polled' = [header |-> <<>>, body_size |-> 0, body |-> <<>>,
                                  recorded |-> FALSE, touched |-> {}, grew |-> 0]
                    /\ UNCHANGED <<wire, m_msg_count, m_recent_message,
                                   m_recent_messages, m_recent_feed, monitors>>
               ELSE /\ body_arrived <= body_size /\ body_arrived <= Len(first.pending)
                    /\ body_ok \/ body_arrived = 0
                    /\ wire' = second.pending
                    /\ IF second.ok /\ Accepted(header)
                       THEN LET recent == SerialMessage(msg, m_msg_count + 1)
                                ring == push_back(m_recent_messages, recent)
                                touched == switch(header, body)
                            IN  /\ m_msg_count' = m_msg_count + 1
                                /\ m_recent_message' = recent
                                /\ m_recent_messages' = ring
                                /\ m_recent_feed' = (IF ~m_pause THEN ring
                                                     ELSE m_recent_feed)
                                /\ monitors' = [s \in Monitors |->
                                                   IF s \in touched THEN recent
                                                   ELSE monitors[s]]
                                /\ polled' = [header |-> first.bytes,
                                              body_size |-> body_size,
                                              body |-> second.bytes,
                                              recorded |-> TRUE, touched |-> touched,
                                              grew |-> 1]
                       ELSE /\ polled' = [header |-> first.bytes,
                                          body_size |-> body_size,
                                          body |-> second.bytes,
                                          recorded |-> FALSE, touched |-> {},
                                          grew |-> 0]
                            /\ UNCHANGED <<m_msg_count, m_recent_message,
                                           m_recent_messages, m_recent_feed, monitors>>
    /\ UNCHANGED <<stimulator, m_open, m_pause, written>>

\* The Pause checkbox of the window.
Pause ==
    /\ m_open
    /\ m_pause' = ~m_pause
    /\ UNCHANGED <<stimulator, m_open, wire, written, msg_header, m_msg_count,
                   m_recent_message, m_recent_messages, m_recent_feed, monitors, polled>>

\* The window is closed: the loop of poll() ends.
Close ==
    /\ m_open
    /\ m_open' = FALSE
    /\ UNCHANGED <<stimulator, m_pause, wire, written, msg_header, m_msg_count,
                   m_recent_message, m_recent_messages, m_recent_feed, monitors, polled>>

\* A virtual Stimulator of one board, enabled, and the VirtualStim listening
\* at the other end of its port.
InitPoll ==
    /\ m_num_ports = 1
    /\ m_is_virtual = TRUE
    /\ LET enabled == enable(Constructed(<<bicep>>),
                             [open |-> [i \in Ports |-> TRUE],
                              conf |-> [i \in Ports |-> TRUE],
                              setup |-> [k \in 1 .. 1 |-> TRUE]]).S
       IN  Holds(enabled) /\ Quiet(enabled)
    /\ edits = 0
    /\ op = "Stimulator"
    /\ ret = <<>>
    /\ pre_enabled = FALSE
    /\ batch = <<>>
    /\ args = <<>>
    /\ drained = <<>>

NextPoll ==
    \/ Send
    \/ Poll
    \/ Pause
    \/ Close

\* The VirtualStim reading what a host writes to its port.
SpecPoll == InitPoll /\ [][NextPoll]_vars

\* ------------------------------------------------- reading the call log
Entries(what) == {k \in 1 .. Len(log) : log[k][1] = what}

\* The last call made this call on that port.
Called(what, port) == \E k \in Entries(what) : log[k][2] = port

\* ... and it succeeded / failed there.
Succeeded(what, port) == \E k \in Entries(what) : log[k][2] = port /\ log[k][3]

Failed(what, port) == \E k \in Entries(what) : log[k][2] = port /\ ~log[k][3]

AllSucceeded(what) == \A k \in Entries(what) : log[k][3]

InvalidFrames == {k \in Entries("frame") : ~log[k][3]}

ValidFrames == {k \in Entries("frame") : log[k][3]}

\* The members a disable() on a disabled Stimulator must leave alone.
Members ==
    <<m_hComms, m_schedulers, m_channels, amplitudes, pulsewidths,
      max_amplitudes, max_pulsewidths, oob>>

\* ------------------------------------------------------------------ claims

\* C1: every update() that returns false leaves the Stimulator disabled; in
\* particular a tick in which every Scheduler.update succeeded and exactly one
\* drained frame is invalid returns false and leaves it disabled.
C1_FailedUpdateDisables ==
    op = "update" =>
        /\ ret = <<FALSE>> => ~m_enabled
        /\ (AllSucceeded("sched_update") /\ Cardinality(InvalidFrames) = 1)
               => (ret = <<FALSE>> /\ ~m_enabled)

C1_Witness ==
    /\ op = "update" /\ pre_enabled
    /\ AllSucceeded("sched_update")
    /\ Cardinality(InvalidFrames) = 1
    /\ ValidFrames # {}
    /\ ret = <<FALSE>> /\ ~m_enabled

\* A port is at fault in a tick when its Scheduler.update returned false or
\* one of the frames drained from it is invalid.
PortFault(p) == Failed("sched_update", p) \/ Failed("frame", p)

OnePortFault == \E p \in Ports : PortFault(p) /\ ~PortFault(1 - p)

BothBoardsStopped ==
    \A i \in Ports :
        /\ Called("sched_disable", i) /\ ~m_schedulers[i].enabled
        /\ Called("close", i) /\ m_hComms[i] # "open"

\* C2: with two ports, an update() that fails on a fault of one port only
\* calls Scheduler.disable on both schedulers and closes both transports.
C2_OnePortFaultStopsBoth ==
    (op = "update" /\ pre_enabled /\ m_num_ports = 2 /\ OnePortFault)
        => (ret = <<FALSE>> /\ ~m_enabled /\ BothBoardsStopped)

C2_Witness ==
    /\ op = "update" /\ pre_enabled /\ m_num_ports = 2
    /\ PortFault(1) /\ ~PortFault(0)
    /\ ValidFrames # {}
    /\ BothBoardsStopped

\* C3: on an enabled Stimulator update() services every configured port and
\* returns true exactly when every Scheduler.update returned true and every
\* drained frame is valid; with no frame drained only the Schedulers decide,
\* and the type of a frame is not looked at.
C3_UpdateResult ==
    (op = "update" /\ pre_enabled) =>
        /\ \A i \in ConfiguredPorts : Called("sched_update", i)
        /\ ret = <<AllSucceeded("sched_update") /\ InvalidFrames = {}>>

C3_Witness ==
    /\ op = "update" /\ pre_enabled /\ ret = <<TRUE>> /\ m_enabled
    /\ \E k \in Entries("frame") : log[k][4] = "unknown"

AllPortsReady ==
    \A i \in ConfiguredPorts : Succeeded("open", i) /\ Succeeded("configure", i)

SetupDone(c) == \E k \in Entries("setup") : log[k][4] = c /\ log[k][3]

SetupFailed(c) == \E k \in Entries("setup") : log[k][4] = c /\ ~log[k][3]

AllChannelsSetUp == \A c \in 1 .. Len(m_channels) : SetupDone(c)

EnableStepFailed ==
    \/ \E i \in Ports : Failed("open", i) \/ Failed("configure", i)
    \/ \E c \in 1 .. Len(m_channels) : SetupFailed(c)

\* C4: enable() (also the one the constructor runs) leaves the Stimulator
\* enabled only if every configured port was opened and configured and every
\* channel was set up; if one of these steps failed it is disabled, and
\* enable() returns the enabled flag.
C4_EnableAllOrNothing ==
    /\ op = "enable" => ret = <<m_enabled>>
    /\ op \in {"enable", "Stimulator"} =>
           /\ m_enabled => (AllPortsReady /\ AllChannelsSetUp)
           /\ EnableStepFailed => ~m_enabled

C4_Witness ==
    /\ op = "enable" /\ pre_enabled
    /\ AllPortsReady /\ SetupDone(1) /\ SetupDone(2) /\ SetupFailed(3)
    /\ ret = <<FALSE>> /\ ~m_enabled

\* The handshake of port i went through: the setup frame was sent and, on a
\* real Stimulator, a valid acknowledgement was read.
HandshakeOk(i) ==
    /\ Succeeded("sched_create", i)
    /\ m_is_virtual \/ Succeeded("ack", i)

AllHandshakesOk == \A i \in ConfiguredPorts : HandshakeOk(i)

\* C5: create_scheduler on an enabled Stimulator returns true when every
\* configured port's handshake succeeded and false otherwise.
C5_CreateSchedulerResult ==
    (op = "create_scheduler" /\ pre_enabled) => (ret = <<AllHandshakesOk>>)

\* C6: when the handshake of some port failed (the send failed, or the
\* acknowledgement is invalid or absent), create_scheduler returns false and
\* the Stimulator is disabled, real or virtual.
C6_HandshakeFailureDisables ==
    (op = "create_scheduler" /\ pre_enabled /\ ~AllHandshakesOk)
        => (ret = <<FALSE>> /\ ~m_enabled)

\* C7: create_scheduler calls set_id with the first payload byte of every
\* valid acknowledgement, on the Scheduler of the port it was read from, which
\* then holds that identifier; a Scheduler without a valid acknowledgement
\* gets no set_id call and keeps the identifier it had.
C7_IdFromValidAck ==
    [][op' = "create_scheduler" =>
          \A i \in Ports :
              /\ \A k \in 1 .. Len(log') :
                     (log'[k][1] = "ack" /\ log'[k][2] = i /\ log'[k][3])
                         => /\ m_schedulers'[i].id = log'[k][4]
                            /\ \E s \in 1 .. Len(log') :
                                   /\ log'[s][1] = "set_id" /\ log'[s][2] = i
                                   /\ log'[s][4] = log'[k][4]
              /\ (~\E k \in 1 .. Len(log') :
                       log'[k][1] = "ack" /\ log'[k][2] = i /\ log'[k][3])
                     => /\ m_schedulers'[i].id = m_schedulers[i].id
                        /\ ~\E s \in 1 .. Len(log') :
                               log'[s][1] = "set_id" /\ log'[s][2] = i]_vars

C7_Witness ==
    /\ op = "create_scheduler" /\ m_num_ports = 2
    /\ \E k \in Entries("ack") : log[k][2] = 0 /\ log[k][3] /\ log[k][4] = 1
    /\ Called("set_id", 0) /\ m_schedulers[0].id = 1
    /\ Failed("ack", 1) /\ ~Called("set_id", 1)

\* C8: disable() on a Stimulator that is not enabled calls no Scheduler,
\* closes no transport, changes no member and leaves it disabled.
C8_DisableIdempotent ==
    [][(op' = "disable" /\ ~m_enabled) =>
          (log' = <<>> /\ ~m_enabled' /\ Members' = Members)]_vars

C8_Witness ==
    op = "disable" /\ ~pre_enabled /\ log = <<>> /\ ~m_enabled

\* C9: begin() never changes the enabled flag; not enabled, it returns false
\* and sends no sync frame; enabled, it sends one on every configured port
\* and returns false, still enabled, when one of them fails.
C9_BeginKeepsFlag ==
    op = "begin" =>
        /\ m_enabled = pre_enabled
        /\ ~pre_enabled => (ret = <<FALSE>> /\ log = <<>>)
        /\ pre_enabled =>
               /\ \A i \in ConfiguredPorts : Called("sync", i)
               /\ ret = <<AllSucceeded("sync")>>

C9_Witness ==
    /\ op = "begin" /\ pre_enabled
    /\ \E i \in ConfiguredPorts : Failed("sync", i)
    /\ ret = <<FALSE>> /\ m_enabled

\* C10: add_events tries the channels of its list in order and stops at the
\* first one whose add_event fails: it returns false there, no later channel
\* is tried, the Events added for the earlier channels stay, the enabled flag
\* is untouched, and it returns true only if every channel was added.
C10_AddEventsFailFast ==
    op = "add_events" =>
        /\ m_enabled = pre_enabled
        /\ Len(log) <= Len(batch)
        /\ \A k \in 1 .. Len(log) :
               /\ log[k][1] = "add_event"
               /\ log[k][2] = batch[k].board_num
               /\ log[k][4] = batch[k].channel_num
               /\ k < Len(log) => log[k][3]
               /\ log[k][3] => HasEvent(m_schedulers[batch[k].board_num], batch[k])
        /\ ret = <<pre_enabled /\ Len(log) = Len(batch) /\ AllSucceeded("add_event")>>
        /\ (pre_enabled /\ ret = <<FALSE>>) => (Len(log) >= 1 /\ ~log[Len(log)][3])

C10_Witness ==
    /\ op = "add_events" /\ m_enabled
    /\ Len(batch) = 3 /\ Len(log) = 2
    /\ log[1][3] /\ ~log[2][3]
    /\ HasEvent(m_schedulers[batch[1].board_num], batch[1])
    /\ ret = <<FALSE>>

\* The calls that need an enabled Stimulator.
GuardedCalls ==
    {"update", "begin", "create_scheduler", "add_event", "add_events",
     "set_amp", "write_pw", "set_amps", "write_pws"}

VoidCalls == {"set_amp", "write_pw", "set_amps", "write_pws"}

\* C11: the enabled flag goes from false to true only in enable(); on a
\* disabled Stimulator update, begin, create_scheduler, add_event,
\* add_events, set_amp and write_pw (and the batch forms) return false or
\* nothing, make no Scheduler or transport call, change no member and leave
\* it disabled.
C11_NoAutomaticEnable ==
    [][/\ (~m_enabled /\ m_enabled') => op' = "enable"
       /\ (~m_enabled /\ op' \in GuardedCalls) =>
              /\ ~m_enabled'
              /\ log' = <<>>
              /\ Members' = Members
              /\ IF op' \in VoidCalls THEN ret' = <<>> ELSE ret' = <<FALSE>>]_vars

C11_Witness ==
    /\ op = "set_amp" /\ ~pre_enabled /\ ~m_enabled
    /\ m_hComms[0] = "closed"
    /\ log = <<>>

\* The Schedulers other than those of the boards of the channels given.
OtherBoards == {i \in Ports : \A k \in 1 .. Len(batch) : batch[k].board_num # i}

\* C12: set_amp, write_pw, set_amps and write_pws change nothing and call no
\* Scheduler while the Stimulator is not enabled; while it is enabled, each
\* channel given makes one call, to the Scheduler at the channel's board
\* index, and the Events of the other Schedulers stay as they were.
C12_EditsRouteToBoard ==
    [][op' \in VoidCalls =>
          /\ m_enabled' = m_enabled
          /\ ~m_enabled => (log' = <<>> /\ m_schedulers' = m_schedulers)
          /\ m_enabled =>
                 /\ Len(log') = Len(batch')
                 /\ \A k \in 1 .. Len(log') :
                        /\ log'[k][1] = (IF op' \in {"set_amp", "set_amps"}
                                         THEN "set_amp" ELSE "write_pw")
                        /\ log'[k][2] = batch'[k].board_num
                        /\ log'[k][4] = batch'[k].channel_num
                 /\ \A i \in OtherBoards' : m_schedulers'[i] = m_schedulers[i]]_vars

C12_Witness ==
    /\ op = "set_amp" /\ pre_enabled /\ m_num_ports = 2
    /\ batch = <<tricep>> /\ args = <<1>>
    /\ log = <<(<<"set_amp", 1, TRUE, 1>>)>>
    /\ HasEvent(m_schedulers[1], tricep)
    /\ SchedulerGetAmp(m_schedulers[1], tricep) = 1
    /\ HasEvent(m_schedulers[0], bicep)
    /\ SchedulerGetAmp(m_schedulers[0], bicep) = 0

\* The positions of the Stimulator's channels that carry the name given.
Named == {k \in 1 .. Len(m_channels) : m_channels[k].name = batch[1].name}

\* C13: update_max_amp / update_max_pw given a name that no channel of the
\* Stimulator carries change no ceiling; given a name that is there, they
\* change that ceiling of the first channel of the name and no other; in both
\* cases the enabled flag, the transports, the Schedulers and the snapshot
\* stay as they were and no exchange takes place.
C13_CeilingOfFirstNamed ==
    [][op' \in {"update_max_amp", "update_max_pw"} =>
          /\ m_enabled' = m_enabled /\ log' = <<>>
          /\ <<m_hComms, m_schedulers, amplitudes, pulsewidths,
               max_amplitudes, max_pulsewidths>>'
                 = <<m_hComms, m_schedulers, amplitudes, pulsewidths,
                     max_amplitudes, max_pulsewidths>>
          /\ Len(m_channels') = Len(m_channels)
          /\ Named' = {} => m_channels' = m_channels
          /\ Named' # {} =>
                 \E k \in Named' :
                     /\ \A h \in Named' : k <= h
                     /\ \A h \in 1 .. Len(m_channels) :
                            h # k => m_channels'[h] = m_channels[h]
                     /\ m_channels'[k] =
                            (IF op' = "update_max_amp"
                             THEN [m_channels[k] EXCEPT !.max_amplitude = args'[1]]
                             ELSE [m_channels[k] EXCEPT !.max_pulse_width = args'[1]])]_vars

C13_Witness ==
    /\ op = "update_max_amp" /\ batch = <<bicep>> /\ args = <<50>>
    /\ Len(m_channels) = 3
    /\ m_channels[1].name = "bicep" /\ m_channels[1].max_amplitude = 50
    /\ m_channels[3].name = "bicep" /\ m_channels[3].max_amplitude = 100

\* The edit frames of the last call.
EditFrames == Entries("edit_amp") \cup Entries("edit_pw")

Quotient(frequency_) == Value(DivMod(1000, 0 - frequency_.e, frequency_.m).q)

\* C16: create_scheduler gives the Scheduler of every port the sync byte it
\* was passed and a tick duration of 1000 / frequency milliseconds without
\* its fraction when the frequency is positive, of 50 ms otherwise.
C16_DurationIsQuotient ==
    op = "create_scheduler" =>
        \A k \in 1 .. Len(log) :
            log[k][1] = "sched_create" =>
                log[k][4] = <<args[1], IF Positive(args[2]) THEN Quotient(args[2]) ELSE 50>>

\* ---------------------------------------------------------------- C17
\* What an operation does to the board of a channel.
ChannelSteps == {"setup", "add_event", "set_amp", "write_pw"}

\* C17: the channel set-up of enable(), add_event, set_amp and write_pw use
\* the transport and the Scheduler of a configured port only: the board
\* index is below the number of configured ports.
C17_BoardIsConfigured ==
    \A k \in 1 .. Len(log) :
        log[k][1] \in ChannelSteps => log[k][2] < m_num_ports

\* ---------------------------------------------------------------- C18
AddCalls == {"add_event", "add_events"}

\* C18: add_event / add_events on an enabled Stimulator creates no Event on
\* a board whose Scheduler has had no successful handshake since the last
\* shutdown, and returns false when it reaches a channel of such a board.
C18_NoEventBeforeHandshake ==
    [][(op' \in AddCalls /\ m_enabled) =>
          \A b \in Ports :
              ~handshook[b] =>
                  /\ m_schedulers'[b].events = m_schedulers[b].events
                  /\ \A k \in 1 .. Len(log') :
                         (log'[k][1] = "add_event" /\ log'[k][2] = b)
                             => (~log'[k][3] /\ ret' = <<FALSE>>)]_vars

\* add_event(bicep) on a freshly enabled Stimulator, before create_scheduler.
C18_Witness ==
    /\ op = "add_event" /\ pre_enabled /\ m_enabled
    /\ ~handshook[0]
    /\ log = <<<<"add_event", 0, FALSE, 0>>>>
    /\ ret = <<FALSE>>
    /\ m_schedulers[0].events = <<>>

\* ---------------------------------------------------------------- C19
\* The places of the log where `what` was done.
Places(what) == {k \in 1 .. Len(log) : log[k][1] = what}

\* C19: a tick on an enabled Stimulator calls Scheduler::update once on every
\* configured port, in port order and whatever an earlier port returned;
\* after that it validates every inbound frame it drained, in order; only
\* after that it may disable.
C19_EveryPortServiced ==
    (op = "update" /\ pre_enabled) =>
        /\ \A i \in ConfiguredPorts :
               Cardinality({k \in Places("sched_update") : log[k][2] = i}) = 1
        /\ \A j, k \in Places("sched_update") : j < k => log[j][2] < log[k][2]
        /\ Cardinality(Places("frame")) = Len(drained)
        /\ \A n \in 1 .. Len(drained) :
               \E k \in Places("frame") :
                   /\ Cardinality({j \in Places("frame") : j <= k}) = n
                   /\ log[k][2] = drained[n].port
                   /\ log[k][3] = IsValid(drained[n])
        /\ \A j \in Places("sched_update"), k \in Places("frame") : j < k
        /\ \A j \in Places("sched_update") \cup Places("frame"),
              k \in Places("sched_disable") : j < k

\* The update of port 0 fails; port 1 is still updated, the inbound frame is
\* still validated, and then the Stimulator is disabled.
C19_Witness ==
    /\ op = "update" /\ pre_enabled /\ m_num_ports = 2
    /\ Did(log, "sched_update", 0) /\ ~DidOk(log, "sched_update", 0)
    /\ DidOk(log, "sched_update", 1)
    /\ Len(drained) > 0 /\ Places("frame") # {}
    /\ Places("sched_disable") # {}
    /\ ~m_enabled

\* ---------------------------------------------------------------- C20
\* C20: disable() on an enabled Stimulator, called directly or by a failed
\* operation, calls Scheduler::disable on every configured port before it
\* closes a transport, closes every configured transport and leaves the
\* Stimulator disabled, whatever the halt / delete frames came to.
C20_ShutdownCompletes ==
    /\ op = "disable" => ~m_enabled
    /\ ((op = "disable" /\ pre_enabled) \/ Places("sched_disable") # {}) =>
           /\ \A i \in ConfiguredPorts :
                  /\ Cardinality({k \in Places("sched_disable") : log[k][2] = i}) = 1
                  /\ Cardinality({k \in Places("close") : log[k][2] = i}) = 1
                  /\ m_hComms[i] # "open"
                  /\ ~m_schedulers[i].enabled
           /\ \A j \in Places("sched_disable"), k \in Places("close") : j < k
           /\ ~m_enabled

\* disable() with two ports where the halt of port 0 failed.
C20_Witness ==
    /\ op = "disable" /\ pre_enabled /\ m_num_ports = 2
    /\ log[1] = <<"sched_disable", 0, FALSE, 0>>
    /\ Did(log, "sched_disable", 1)
    /\ Did(log, "close", 0) /\ Did(log, "close", 1)
    /\ m_hComms[0] = "closed" /\ m_hComms[1] = "closed"
    /\ ~m_enabled

\* ---------------------------------------------------------------- C14
\* C14: the refresh of update() writes the four snapshot arrays of every
\* channel of every port inside one critical section of the snapshot mutex:
\* what a reader copies while it holds that mutex is the snapshot one
\* complete refresh left, never a mix of this tick's and the last tick's.
C14_SnapshotRefreshAtomic ==
    /\ tick \in {"write", "unlock"} => m_mtx = "update"
    /\ reading =>
           /\ m_mtx = "reader"
           /\ \A k \in 1 .. Len(copy) : copy[k] = Entry(published, k - 1)

\* The reader holds a complete copy taken after a tick that changed the
\* amplitude of bicep, while the next tick waits for the mutex.
C14_Witness ==
    /\ reading /\ Len(copy) = Len(m_channels)
    /\ copy[1][1] = 1
    /\ tick = "lock"

\* ---------------------------------------------------------------- C21
EnableSteps == {"open", "configure", "setup"}

\* Step k of an enable() in which nothing fails: <<what, port, detail>>.
EnableStep(k) ==
    IF k <= 2 * m_num_ports
    THEN <<IF k % 2 = 1 THEN "open" ELSE "configure", (k - 1) \div 2, 0>>
    ELSE <<"setup", m_channels[k - 2 * m_num_ports].board_num, k - 2 * m_num_ports>>

\* C21: enable() opens and configures the ports one after another in port
\* order, then sets the channels up in list order, and stops at the first
\* step that fails: what it did is the first m steps of that order, all but
\* the last of them successful, and it stops short only after a failure.
C21_EnableInOrder ==
    op \in {"enable", "Stimulator"} =>
        \E m \in 0 .. Len(log) :
            /\ m <= 2 * m_num_ports + Len(m_channels)
            /\ \A k \in 1 .. m :
                   /\ <<log[k][1], log[k][2], log[k][4]>> = EnableStep(k)
                   /\ k < m => log[k][3]
            /\ \A k \in (m + 1) .. Len(log) : log[k][1] \notin EnableSteps
            /\ m < 2 * m_num_ports + Len(m_channels) => (m >= 1 /\ ~log[m][3])

\* Port 0 was opened but not configured: port 1 is not opened, no channel
\* is set up.
C21_Witness ==
    /\ op = "enable" /\ m_num_ports = 2
    /\ log[1] = <<"open", 0, TRUE, 0>>
    /\ log[2] = <<"configure", 0, FALSE, 0>>
    /\ Entries("setup") = {}
    /\ ~Called("open", 1)

\* ---------------------------------------------------------------- C22
\* C22: an enable() that aborts closes every transport it opened before it
\* returns: once an operation has returned with the Stimulator disabled, no
\* transport handle is open.
C22_NothingOpenWhenDisabled ==
    ~m_enabled => \A i \in Ports : m_hComms[i] # "open"


\* The Events a tick refreshes: those of the configured ports whose channel
\* number lies inside the snapshot arrays.
TickedEvents ==
    {e \in UNION {{m_schedulers[j].events[k] : k \in 1 .. Len(m_schedulers[j].events)} :
                     j \in ConfiguredPorts} :
        e.channel.channel_num < Len(m_channels)}

\* C23: a tick of update() on an enabled Stimulator leaves, for every channel
\* with an Event, the snapshot amplitude and pulse width equal to the values
\* last given to set_amp / write_pw, acknowledged by the board or not, and
\* also when the tick fails and disables the Stimulator; and set_amp /
\* write_pw on an enabled Stimulator store the given value in the Event.
C23_SnapshotHoldsAttempted ==
    [][/\ (op' = "update" /\ m_enabled) =>
              \A e \in TickedEvents :
                  /\ amplitudes'[e.channel.channel_num] = e.amplitude
                  /\ pulsewidths'[e.channel.channel_num] = e.pulse_width
       /\ (op' \in {"set_amp", "write_pw"} /\ m_enabled) =>
              \A e \in TickedEvents :
                  e.channel.name = batch'[1].name =>
                      \E f \in {m_schedulers'[e.channel.board_num].events[k] :
                                   k \in 1 .. Len(m_schedulers'[e.channel.board_num].events)} :
                          /\ f.channel = e.channel
                          /\ IF op' = "set_amp" THEN f.amplitude = args'[1]
                             ELSE f.pulse_width = args'[1]]_vars

\* A tick that failed and disabled the Stimulator, with an amplitude the
\* board never acknowledged in the snapshot.
C23_Witness ==
    /\ op = "update" /\ pre_enabled /\ ~m_enabled /\ ret = <<FALSE>>
    /\ \E k \in Entries("edit_amp") : ~log[k][3] /\ log[k][4] = 0
    /\ amplitudes[0] = 1


\* The monitor slot a recorded message belongs to: the slot of its type byte,
\* for an event-edit frame the slot of its parameter byte, the unknown slot in
\* every other case.
Category(message) ==
    CASE message[3] = 71 -> "m_channel_setup_message"
      [] message[3] = 16 -> "m_scheduler_setup_message"
      [] message[3] = 21 -> "m_event_create_message"
      [] message[3] = 23 -> "m_event_delete_message"
      [] message[3] = 27 -> "m_scheduler_sync_message"
      [] message[3] = 4 -> "m_scheduler_halt_message"
      [] message[3] = 18 -> "m_scheduler_delete_message"
      [] message[3] = 25 /\ message[5] = 1 -> "m_event_edit_1_message"
      [] message[3] = 25 /\ message[5] = 2 -> "m_event_edit_2_message"
      [] message[3] = 25 /\ message[5] = 3 -> "m_event_edit_3_message"
      [] message[3] = 25 /\ message[5] = 4 -> "m_event_edit_4_message"
      [] OTHER -> "m_unknown_message"

\* C24: every frame poll() accepts (sync 0x04, address 0x80) updates exactly
\* one monitor slot: the slot of its type byte, for type 0x19 the edit slot of
\* body[0] in 1 .. 4, and the unknown slot in every other case.  Stated for
\* the frames whose header and body were received whole.
C24_OneMonitorPerFrame ==
    (polled.recorded /\ Len(polled.header) = 4 /\ Len(polled.body) = polled.body_size) =>
        /\ polled.touched = {Category(m_recent_message.message)}
        /\ monitors[Category(m_recent_message.message)] = m_recent_message

\* C25: every message poll() records is the bytes received for one frame,
\* four header bytes and header[3]+1 body bytes, with sync 0x04 and address
\* 0x80; a header or body received in part is not recorded; the message
\* counter grows by one per recorded message and not otherwise.
C25_RecordedIsWholeFrame ==
    /\ polled.recorded =>
           /\ Len(polled.header) = 4
           /\ Len(polled.body) = polled.header[4] + 1
           /\ Accepted(polled.header)
           /\ m_recent_message.message = polled.header \o polled.body
           /\ m_recent_message.msg_num = m_msg_count
           /\ polled.grew = 1
    /\ ~polled.recorded => polled.grew = 0


\* C26: update() never writes the snapshot outside its arrays: the arrays
\* hold one entry per channel of the constructor's list, and every index
\* update() uses is smaller than that number.
C26_SnapshotWritesInside ==
    /\ \A a \in {amplitudes, pulsewidths, max_amplitudes, max_pulsewidths} :
           DOMAIN a = 0 .. (Len(m_channels) - 1)
    /\ ~oob

\* C27: after a successful update() the entry update() wrote for the Event
\* of a channel of the constructor's list is the entry the constructor named
\* after that channel, and it holds that channel's amplitude and pulse width.
C27_SnapshotIndexedByName ==
    (op = "update" /\ ret = <<TRUE>>) =>
        \A e \in {d \in TickedEvents :
                     \E k \in DOMAIN channel_names : channel_names[k] = d.channel.name} :
            /\ channel_names[e.channel.channel_num] = e.channel.name
            /\ amplitudes[e.channel.channel_num] = e.amplitude
            /\ pulsewidths[e.channel.channel_num] = e.pulse_width


\* The Events of the channel the last call named, for a channel of m_channels.
NamedEvents ==
    {e \in TickedEvents :
        /\ batch # <<>> /\ e.channel.name = batch[1].name
        /\ \E k \in 1 .. Len(m_channels) : m_channels[k].name = e.channel.name}

\* C28: after update_max_amp(c, m) / update_max_pw(c, m) on a channel c that
\* has an Event, the next successful update() leaves the snapshot's max
\* amplitude / max pulse width of c equal to m.
C28_CeilingReachesSnapshot ==
    [][(op \in {"update_max_amp", "update_max_pw"} /\ op' = "update" /\ ret' = <<TRUE>>) =>
           \A e \in NamedEvents :
               IF op = "update_max_amp"
               THEN max_amplitudes'[e.channel.channel_num] = args[1]
               ELSE max_pulsewidths'[e.channel.channel_num] = args[1]]_vars

====
